---- MODULE Spec2Model ----
(***************************************************************************)
(* Operational scripts of the parachain test network:                      *)
(*   - wait_for_file of scripts/register_parachain.py (the file-readiness  *)
(*     waiter), together with the external writer of the awaited path;     *)
(*   - main of scripts/update_hardcoded_specs.py and of                    *)
(*     scripts/update_hardcoded_chain_specs.py (the two revisions of the   *)
(*     chain-spec migrator), together with the files they read and write.  *)
(***************************************************************************)
EXTENDS Integers, Sequences, FiniteSets, TLC

VARIABLES
    \* ---- file-readiness waiter (register_parachain.py) ----
    tries,      \* argument `tries`
    delay,      \* argument `delay`
    fstate,     \* what the awaited path currently is on disk
    wpc,        \* position of the waiter inside wait_for_file
    it,         \* iterations of `for _ in range(tries)` begun so far
    checks,     \* p.exists() calls performed
    sleeps,     \* sleep(delay) calls completed
    result,     \* "running", "ok" (return), "notfile" / "timeout" (raise)
    reported,   \* the number of seconds the timeout message names, -1 if none
    readyAt,    \* seconds slept when the path last became ready, -1 if not ready
    \* ---- chain-spec migrator (update_hardcoded_*specs.py) ----
    rev,        \* which script revision runs
    flag,       \* the boolean handed to main()
    k,          \* position in SPECS of the chain being processed
    mpc,        \* position of main inside the loop body
    exc,        \* the uncaught exception that ended the run, "none" if none
    ret,        \* exit status of the last generation step (printed)
    orig,       \* orig[c]: content of <RES_DIR>/<c>.json, NoFile if absent
    side,       \* side[c][f]: content of side file f of chain c, NoFile if absent
    cp,         \* chains whose `cp` child process has been spawned and not yet run
    hist        \* hist[c]: what the run did for chain c and on which inputs

wvars == <<tries, delay, fstate, wpc, it, checks, sleeps, result, reported, readyAt>>
mvars == <<rev, flag, k, mpc, exc, ret, orig, side, cp, hist>>
vars == <<wvars, mvars>>

(***************************************************************************)
(* Bounds of the model.                                                    *)
(***************************************************************************)
MaxTries == 3
MaxDelay == 2
NumChains == 2

(***************************************************************************)
(*                     PART 1: the file-readiness waiter                   *)
(***************************************************************************)

\* What a path can be.  "empty" and "nonempty" are regular files.
PathStates == {"absent", "dir", "empty", "nonempty"}

\* Path.exists()
Exists(s) == s # "absent"

\* (variant: any existing path passes for a file)
IsFileLoose(s) == TRUE

\* Path.is_file()
IsFile(s) == s \in {"empty", "nonempty"}

\* Path.stat().st_size > 0 for a regular file
SizePositive(s) == s = "nonempty"

\* the duration the timeout message names: {delay * tries}
TimeoutSeconds(d, t) == d * t

\* (variant: one iteration too many)
RangeOneMore(n, t) == n <= t

\* `for _ in range(tries)`: is there another iteration after n of them?
RangeHasNext(n, t) == n < t

\* Seconds slept so far: every completed sleep lasted `delay`.
Elapsed == sleeps * delay

InitWaiter ==
    /\ tries \in 0..MaxTries
    /\ delay \in 1..MaxDelay
    /\ fstate \in PathStates
    /\ wpc = "loop"
    /\ it = 0
    /\ checks = 0
    /\ sleeps = 0
    /\ result = "running"
    /\ reported = -1
    /\ readyAt = IF fstate = "nonempty" THEN 0 ELSE -1

\* for _ in range(tries): ... else fall out of the loop and raise the timeout
WLoop ==
    /\ wpc = "loop"
    /\ IF RangeHasNext(it, tries)
         THEN /\ it' = it + 1
              /\ wpc' = "exists"
              /\ UNCHANGED <<result, reported>>
         ELSE /\ result' = "timeout"
              /\ reported' = TimeoutSeconds(delay, tries)
              /\ wpc' = "done"
              /\ UNCHANGED it
    /\ UNCHANGED <<tries, delay, fstate, checks, sleeps, readyAt>>

\* if p.exists():
WExists ==
    /\ wpc = "exists"
    /\ checks' = checks + 1
    /\ wpc' = IF Exists(fstate) THEN "is_file" ELSE "sleep"
    /\ UNCHANGED <<tries, delay, fstate, it, sleeps, result, reported, readyAt>>

\* if not p.is_file(): raise Exception(f"{path} was not a normal file")
WIsFile ==
    /\ wpc = "is_file"
    /\ IF IsFile(fstate)
         THEN wpc' = "stat" /\ UNCHANGED result
         ELSE wpc' = "done" /\ result' = "notfile"
    /\ UNCHANGED <<tries, delay, fstate, it, checks, sleeps, reported, readyAt>>

\* if p.stat().st_size > 0: return
\* (stat of a path that has vanished raises FileNotFoundError)
WStat ==
    /\ wpc = "stat"
    /\ IF ~Exists(fstate)
         THEN wpc' = "done" /\ result' = "oserror"
         ELSE IF SizePositive(fstate)
                THEN wpc' = "done" /\ result' = "ok"
                ELSE wpc' = "sleep" /\ UNCHANGED result
    /\ UNCHANGED <<tries, delay, fstate, it, checks, sleeps, reported, readyAt>>

\* sleep(delay)
WSleep ==
    /\ wpc = "sleep"
    /\ sleeps' = sleeps + 1
    /\ wpc' = "loop"
    /\ UNCHANGED <<tries, delay, fstate, it, checks, result, reported, readyAt>>

WaiterStep == WLoop \/ WExists \/ WIsFile \/ WStat \/ WSleep

(***************************************************************************)
(* The other container, which writes the awaited file while the waiter     *)
(* polls: it creates the file, fills it, may rewrite it (truncating it     *)
(* first), or the path is brought up as a directory.  It never removes the *)
(* path.                                                                   *)
(***************************************************************************)
EnvSet(s) ==
    /\ result = "running"
    /\ fstate' = s
    /\ readyAt' = IF s = "nonempty" THEN Elapsed ELSE -1
    /\ UNCHANGED <<tries, delay, wpc, it, checks, sleeps, result, reported>>

EnvCreate   == fstate = "absent"   /\ EnvSet("empty")
EnvWrite    == fstate = "empty"    /\ EnvSet("nonempty")
EnvAppear   == fstate = "absent"   /\ EnvSet("nonempty")
EnvTruncate == fstate = "nonempty" /\ EnvSet("empty")
EnvMkdir    == fstate = "absent"   /\ EnvSet("dir")

(***************************************************************************)
(*                     PART 2: the chain-spec migrator                     *)
(***************************************************************************)

\* The two revisions of the script.
Revisions == {"specs", "chain_specs"}

\* Positions in SPECS; the chains are told apart by their position only.
Chains == 1..NumChains

\* The five side products of the generation step, in the order in which the
\* script removes them: <new_file_base> + suffix.
SideSuffixes == <<".json", "-raw.json", "-raw-unsorted.json", ".state", ".wasm">>
SideNames == {SideSuffixes[i] : i \in 1..Len(SideSuffixes)}
RawName == "-raw.json"

\* A file is the sequence of its tokens; an absent file is NoFile.
NoFile == <<"<absent>">>
Blob == <<"blob">>

(************************ documents and JSON *******************************)
\* A JSON object (a Python dict) is the sequence of its <<key, value>> pairs
\* in insertion order.
HasKey(doc, key) == \E i \in 1..Len(doc) : doc[i][1] = key

\* doc[key]; the caller checks HasKey first (KeyError otherwise)
Get(doc, key) == doc[CHOOSE i \in 1..Len(doc) : doc[i][1] = key][2]

\* doc[key] = val: in place when the key is there, appended otherwise
SetKey(doc, key, val) ==
    IF HasKey(doc, key)
      THEN [i \in 1..Len(doc) |-> IF doc[i][1] = key THEN <<key, val>> ELSE doc[i]]
      ELSE Append(doc, <<key, val>>)

Keys(doc) == {doc[i][1] : i \in 1..Len(doc)}

RECURSIVE Flat(_)
Flat(doc) == IF doc = <<>> THEN <<>>
             ELSE <<doc[1][1], doc[1][2]>> \o Flat(Tail(doc))

\* json.dump(doc, file, indent=2): the tokens of the object, braces included
Dump(doc) == <<"{">> \o Flat(doc) \o <<"}">>

\* Does json.load accept the content?  One object, nothing after it.
WellFormed(c) ==
    /\ c # NoFile
    /\ Len(c) >= 2
    /\ Len(c) % 2 = 0
    /\ c[1] = "{"
    /\ c[Len(c)] = "}"
    /\ \A i \in 2..(Len(c) - 1) : c[i] \notin {"{", "}"}

RECURSIVE LoadFrom(_, _, _)
LoadFrom(c, i, acc) ==
    IF i + 1 >= Len(c) THEN acc
    ELSE LoadFrom(c, i + 2, SetKey(acc, c[i], c[i + 1]))

\* json.load(file) of a well-formed content: a repeated key keeps its first
\* position and its last value, as dict() does
Load(c) == LoadFrom(c, 2, <<>>)

(************************ file operations **********************************)
\* file.write(data) at offset pos of a file opened 'r+': overwrites in place
\* and extends the file, and keeps what lies beyond the written part
WriteAt(c, pos, data) ==
    SubSeq(c, 1, pos) \o data \o SubSeq(c, pos + Len(data) + 1, Len(c))

\* (variant: the truncate() call left out)
TruncateNot(c, pos) == c

\* file.truncate() with the file position at pos
Truncate(c, pos) == SubSeq(c, 1, pos)

\* seek(0); json.dump(new_json, f, indent=2); truncate()
Overwrite(c, doc) == Truncate(WriteAt(c, 0, Dump(doc)), Len(Dump(doc)))

(************************ the merge ****************************************)
\* (variant: both revisions reading the flag the same way)
PreserveGenesisSamePolarity(r, f) == ~f

\* Is the previous genesis copied into the fresh document?
\*   update_hardcoded_specs.py:        if not regenesis:
\*   update_hardcoded_chain_specs.py:  if migrate_genesis:
PreserveGenesis(r, f) == IF r = "specs" THEN ~f ELSE f

\* The keys of orig_json the merge reads (a missing one raises KeyError).
NeededKeys(r, f) == {"bootNodes"} \cup (IF PreserveGenesis(r, f) THEN {"genesis"} ELSE {})

\* new_json["bootNodes"] = orig_json["bootNodes"], then the optional genesis
MergeDoc(r, f, o, n) ==
    LET n1 == SetKey(n, "bootNodes", Get(o, "bootNodes"))
    IN  IF PreserveGenesis(r, f) THEN SetKey(n1, "genesis", Get(o, "genesis")) ELSE n1

(************************ inputs *******************************************)
PrevFull  == Dump(<< <<"name", "old">>, <<"bootNodes", "[a,b]">>,
                     <<"genesis", "{x:1}">>, <<"protocolId", "p">> >>)
PrevShort == Dump(<< <<"bootNodes", "[c]">> >>)
PrevBad   == <<"{", "name">>
PrevContents == {NoFile, PrevFull, PrevShort, PrevBad}

FreshFull  == Dump(<< <<"name", "new">>, <<"bootNodes", "[]">>, <<"genesis", "{x:2}">> >>)
FreshShort == Dump(<< <<"genesis", "{x:2}">>, <<"id", "new">> >>)
FreshBad   == <<"{">>
FreshContents == {FreshFull, FreshShort, FreshBad}

NoSideFiles == [f \in SideNames |-> NoFile]
AllSideFiles(raw) == [f \in SideNames |-> IF f = RawName THEN raw ELSE Blob]

\* What scripts/dump_wasm_state_and_spec.sh may leave behind: the five files,
\* the five files but the last, or nothing.
GenOutcomes ==
    {AllSideFiles(c) : c \in FreshContents}
    \cup {[AllSideFiles(FreshFull) EXCEPT ![".wasm"] = NoFile]}
    \cup {NoSideFiles}

ExitStatuses == {0, 1}

(************************ the run ******************************************)
InitMigrator ==
    /\ rev \in Revisions
    /\ flag \in BOOLEAN
    /\ k = 1
    /\ mpc = "gen"
    /\ exc = "none"
    /\ ret = -1
    /\ orig \in [Chains -> PrevContents]
    /\ side = [c \in Chains |-> NoSideFiles]
    /\ cp = {}
    /\ hist = [c \in Chains |-> [gen |-> FALSE, status |-> -1, path |-> "none",
                                 prev |-> orig[c], raw |-> NoFile]]

\* The end of the loop body: on to the next chain, or out of the loop.
Advance ==
    /\ k' = k + 1
    /\ mpc' = IF k + 1 \in Chains THEN "gen" ELSE "done"

\* An uncaught exception: the run ends where it is.
Raise(e) ==
    /\ exc' = e
    /\ mpc' = "aborted"
    /\ UNCHANGED k

\* Where main goes after subprocess.call and print(ret): the exit status is
\* not looked at.
AfterGenerate(r) == IF r = "specs" THEN "exists" ELSE "merge"

\* (variant: subprocess.check_call, which raises on a non-zero exit status)
GenerateChecked ==
    /\ mpc = "gen"
    /\ \E status \in ExitStatuses, out \in GenOutcomes :
         /\ ret' = status
         /\ side' = [side EXCEPT ![k] = out]
         /\ hist' = [hist EXCEPT ![k].gen = TRUE, ![k].status = status,
                                 ![k].raw = out[RawName]]
         /\ IF status # 0
              THEN Raise("CalledProcessError")
              ELSE mpc' = AfterGenerate(rev) /\ UNCHANGED <<k, exc>>
    /\ UNCHANGED <<rev, flag, orig, cp>>

\* ret = subprocess.call('scripts/dump_wasm_state_and_spec.sh ...'); print(ret)
Generate ==
    /\ mpc = "gen"
    /\ \E status \in ExitStatuses, out \in GenOutcomes :
         /\ ret' = status
         /\ side' = [side EXCEPT ![k] = out]
         /\ hist' = [hist EXCEPT ![k].gen = TRUE, ![k].status = status,
                                 ![k].raw = out[RawName]]
         /\ mpc' = AfterGenerate(rev)
    /\ UNCHANGED <<rev, flag, k, exc, orig, cp>>

\* (variant: the test without its `not`)
CheckExistsNegated ==
    /\ mpc = "exists"
    /\ mpc' = IF orig[k] # NoFile THEN "copy" ELSE "merge"
    /\ UNCHANGED <<rev, flag, k, exc, ret, orig, side, cp, hist>>

\* update_hardcoded_specs.py only: if not os.path.exists(orig_file):
CheckExists ==
    /\ mpc = "exists"
    /\ mpc' = IF orig[k] = NoFile THEN "copy" ELSE "merge"
    /\ UNCHANGED <<rev, flag, k, exc, ret, orig, side, cp, hist>>

\* update_hardcoded_specs.py only: os.popen(f"cp {new_file_base}-raw.json
\* {orig_file}") starts the child and does not wait for it; the removals of
\* the side products belong to the else branch and are not reached.
SpawnCopy ==
    /\ mpc = "copy"
    /\ cp' = cp \cup {k}
    /\ hist' = [hist EXCEPT ![k].path = "copy"]
    /\ Advance
    /\ UNCHANGED <<rev, flag, exc, ret, orig, side>>

\* The spawned `cp`: copies the fresh raw spec over the original name if the
\* source is there, fails (on its own stderr) otherwise.
CopyRuns(c) ==
    /\ c \in cp
    /\ cp' = cp \ {c}
    /\ orig' = IF side[c][RawName] # NoFile
                 THEN [orig EXCEPT ![c] = side[c][RawName]]
                 ELSE orig
    /\ UNCHANGED <<rev, flag, k, mpc, exc, ret, side, hist>>

\* The exception the `with open(orig_file, 'r+')` block raises, "none" if none.
MergeException(r, f, o, n) ==
    IF o = NoFile THEN "FileNotFoundError"
    ELSE IF ~WellFormed(o) THEN "JSONDecodeError"
    ELSE IF n = NoFile THEN "FileNotFoundError"
    ELSE IF ~WellFormed(n) THEN "JSONDecodeError"
    ELSE IF \E key \in NeededKeys(r, f) : ~HasKey(Load(o), key) THEN "KeyError"
    ELSE "none"

\* with open(orig_file, 'r+') ...: load both, merge, write back over orig_file
Merge ==
    /\ mpc = "merge"
    /\ LET o == orig[k]
           n == side[k][RawName]
           e == MergeException(rev, flag, o, n)
       IN IF e # "none"
            THEN /\ Raise(e)
                 /\ UNCHANGED <<orig, hist>>
            ELSE /\ orig' = [orig EXCEPT
                                ![k] = Overwrite(o, MergeDoc(rev, flag, Load(o), Load(n)))]
                 /\ hist' = [hist EXCEPT ![k].path = "merge"]
                 /\ mpc' = "remove"
                 /\ UNCHANGED <<k, exc>>
    /\ UNCHANGED <<rev, flag, ret, side, cp>>

\* The first side file, in removal order, that is not there; 0 if all are.
FirstMissing(files) ==
    IF \A i \in 1..Len(SideSuffixes) : files[SideSuffixes[i]] # NoFile THEN 0
    ELSE CHOOSE i \in 1..Len(SideSuffixes) :
           /\ files[SideSuffixes[i]] = NoFile
           /\ \A j \in 1..(i - 1) : files[SideSuffixes[j]] # NoFile

\* The files left when the first n of the os.remove calls have succeeded.
RemovedUpTo(files, n) ==
    [f \in SideNames |-> IF \E i \in 1..n : SideSuffixes[i] = f THEN NoFile ELSE files[f]]

\* os.remove of the five side products, one after the other
Remove ==
    /\ mpc = "remove"
    /\ LET m == FirstMissing(side[k])
       IN IF m = 0
            THEN /\ side' = [side EXCEPT ![k] = RemovedUpTo(side[k], Len(SideSuffixes))]
                 /\ Advance
                 /\ UNCHANGED exc
            ELSE /\ side' = [side EXCEPT ![k] = RemovedUpTo(side[k], m - 1)]
                 /\ Raise("FileNotFoundError")
    /\ UNCHANGED <<rev, flag, ret, orig, cp, hist>>

(***************************************************************************)
(*                          The specifications                             *)
(***************************************************************************)
IdleWaiter ==
    /\ tries = 0 /\ delay = 1 /\ fstate = "absent" /\ wpc = "done" /\ it = 0
    /\ checks = 0 /\ sleeps = 0 /\ result = "running" /\ reported = -1 /\ readyAt = -1

IdleMigrator ==
    /\ rev = "specs" /\ flag = FALSE /\ k = 1 /\ mpc = "done" /\ exc = "none" /\ ret = -1
    /\ orig = [c \in Chains |-> NoFile] /\ side = [c \in Chains |-> NoSideFiles]
    /\ cp = {}
    /\ hist = [c \in Chains |-> [gen |-> FALSE, status |-> -1, path |-> "none",
                                 prev |-> NoFile, raw |-> NoFile]]

\* A run of either revision of the migrator.
Init == InitMigrator /\ IdleWaiter
Next ==
    \/ Generate /\ UNCHANGED wvars
    \/ CheckExists /\ UNCHANGED wvars
    \/ SpawnCopy /\ UNCHANGED wvars
    \/ Merge /\ UNCHANGED wvars
    \/ Remove /\ UNCHANGED wvars
    \/ \E c \in Chains : CopyRuns(c) /\ UNCHANGED wvars
Spec == Init /\ [][Next]_vars

\* A call of wait_for_file next to the writer of the awaited path.
InitWait == InitWaiter /\ IdleMigrator
NextWait ==
    \/ WLoop /\ UNCHANGED mvars
    \/ WExists /\ UNCHANGED mvars
    \/ WIsFile /\ UNCHANGED mvars
    \/ WStat /\ UNCHANGED mvars
    \/ WSleep /\ UNCHANGED mvars
    \/ EnvCreate /\ UNCHANGED mvars
    \/ EnvWrite /\ UNCHANGED mvars
    \/ EnvAppear /\ UNCHANGED mvars
    \/ EnvTruncate /\ UNCHANGED mvars
    \/ EnvMkdir /\ UNCHANGED mvars
SpecWait == InitWait /\ [][NextWait]_vars

\* The waiter is a running thread: it keeps taking its next step, and
\* sleep(delay) returns.  Nothing is assumed of the writer.
FairSpecWait == SpecWait /\ WF_vars(WaiterStep /\ UNCHANGED mvars)

(***************************************************************************)
(*                  PART 3: the properties of the waiter                   *)
(***************************************************************************)

\* C1: a target that becomes a non-empty regular file before delay * tries
\* seconds have elapsed, and stays so, makes the waiter return; and the waiter
\* returns only at a check that finds the path a non-empty regular file.
C1_ReadyWithinBudgetSucceeds ==
    /\ (result # "running" /\ readyAt >= 0 /\ readyAt < delay * tries) => result = "ok"
    /\ result = "ok" => fstate = "nonempty"

\* C2: a check that finds the path existing and not a regular file ends the
\* call with the "was not a normal file" error at once: no further sleep and no
\* further check, whatever number of attempts remains; the error is raised for
\* no other kind of path, and it is final.
C2_NotAFileFailsAtOnce ==
    [][ /\ (wpc = "exists" /\ fstate = "dir" /\ wpc' # wpc) => wpc' = "is_file"
        /\ (wpc = "is_file" /\ fstate = "dir" /\ wpc' # wpc)
              => (result' = "notfile" /\ wpc' = "done"
                  /\ sleeps' = sleeps /\ checks' = checks)
        /\ (result' = "notfile" /\ result # "notfile") => fstate = "dir"
        /\ result = "notfile" => (result' = "notfile" /\ sleeps' = sleeps
                                  /\ checks' = checks /\ wpc' = "done")
      ]_vars

C2_Witness ==
    /\ result = "notfile"
    /\ checks >= 2
    /\ it < tries
    /\ sleeps = checks - 1

\* Every check but the first comes right after one sleep, and nothing else
\* sleeps but the one sleep that follows an unsuccessful check.
ChecksSpacedBySleeps ==
    /\ wpc \in {"loop", "exists"} => sleeps = checks
    /\ wpc \in {"is_file", "stat", "sleep"} => sleeps = checks - 1

\* C3: for a target that is never ready (absent or an empty regular file
\* throughout) the call terminates, with the timeout error, after exactly
\* `tries` checks, consecutive checks one sleep apart; the message names
\* delay * tries seconds; there are never more than `tries` checks, and none
\* at all when tries = 0.
C3_NeverReadyTimesOut ==
    [](fstate \in {"absent", "empty"})
      => /\ <>(/\ result = "timeout"
               /\ checks = tries
               /\ reported = delay * tries)
         /\ [](result \in {"running", "timeout"})
         /\ [](checks <= tries)
         /\ [](ChecksSpacedBySleeps)
         /\ []((tries = 0 /\ result # "running") => (result = "timeout" /\ checks = 0))

C3_Witness ==
    /\ result = "timeout"
    /\ fstate = "absent"
    /\ tries >= 2
    /\ checks = tries
    /\ reported = delay * tries

(***************************************************************************)
(*                 PART 4: the properties of the migrator                  *)
(***************************************************************************)

\* The loop body of chain c has been left at its end.
Processed(c) == c < k

PrevDoc(c) == Load(hist[c].prev)
FreshDoc(c) == Load(hist[c].raw)
OutDoc(c) == Load(orig[c])
Merged(c) == hist[c].path = "merge"
GenesisOf(doc) == IF HasKey(doc, "genesis") THEN Get(doc, "genesis") ELSE "<no genesis>"
OtherRevision(r) == IF r = "specs" THEN "chain_specs" ELSE "specs"

\* C4: in both revisions the merged document has the previous bootNodes; it
\* has the previous genesis when the flag is not given, and the fresh genesis
\* when the flag is given.
C4_GenesisFollowsFlag ==
    \A c \in Chains :
       Merged(c) =>
         /\ WellFormed(orig[c])
         /\ HasKey(OutDoc(c), "bootNodes")
         /\ Get(OutDoc(c), "bootNodes") = Get(PrevDoc(c), "bootNodes")
         /\ GenesisOf(OutDoc(c)) = IF flag THEN GenesisOf(FreshDoc(c))
                                   ELSE GenesisOf(PrevDoc(c))

\* C5: after a run that ends without an exception, no side file of any chain
\* is left and every <chain>.json holds the new content, also for the chains
\* that had no previous spec file.
C5_NoSideFilesAfterRun ==
    (mpc = "done" /\ exc = "none") =>
       \A c \in Chains :
          /\ side[c] = NoSideFiles
          /\ orig[c] # NoFile
          /\ hist[c].prev # NoFile
                => orig[c] = Dump(MergeDoc(rev, flag, PrevDoc(c), FreshDoc(c)))
          /\ hist[c].prev = NoFile => orig[c] = hist[c].raw

C7_AbortLeavesPrefixMigrated ==
    /\ \A c \in Chains : c > k => (~hist[c].gen /\ orig[c] = hist[c].prev
                                  /\ side[c] = NoSideFiles)
    /\ mpc = "aborted" =>
         \A c \in Chains :
            c < k => /\ side[c] = NoSideFiles
                     /\ Merged(c)
                     /\ orig[c] = Dump(MergeDoc(rev, flag, PrevDoc(c), FreshDoc(c)))

\* C8: the exit status of the generation step is printed and nothing else:
\* whatever it is, the step after it is the one the revision always takes, no
\* exception comes of it, and the chain stays the current one.
C8_ExitStatusIgnored ==
    [][ (mpc = "gen" /\ mpc' # mpc)
           => /\ ret' \in ExitStatuses
              /\ hist'[k].status = ret'
              /\ exc' = "none"
              /\ k' = k
              /\ mpc' = IF rev = "specs" THEN "exists" ELSE "merge"
      ]_vars

C8_Witness ==
    /\ mpc = "done"
    /\ NumChains >= 2
    /\ hist[1].status = 1
    /\ Merged(1)
    /\ side[1] = NoSideFiles
    /\ Merged(2)

Replaced == {"bootNodes"} \cup (IF PreserveGenesis(rev, flag) THEN {"genesis"} ELSE {})

\* C10: the file written by the merge holds one document and nothing after
\* it; its fields are those of the fresh raw document plus the replaced ones;
\* the replaced fields have the previous document's values and every other
\* field the fresh raw document's.
C10_OnlyReplacedFieldsDiffer ==
    \A c \in Chains :
       Merged(c) =>
         /\ WellFormed(orig[c])
         /\ orig[c] = Dump(OutDoc(c))
         /\ Len(orig[c]) = 2 + 2 * Cardinality(Keys(OutDoc(c)))
         /\ Keys(OutDoc(c)) = Keys(FreshDoc(c)) \cup Replaced
         /\ \A key \in Keys(OutDoc(c)) :
               Get(OutDoc(c), key) = IF key \in Replaced THEN Get(PrevDoc(c), key)
                                     ELSE Get(FreshDoc(c), key)

C10_Witness ==
    \E c \in Chains :
       /\ Merged(c)
       /\ Len(orig[c]) < Len(hist[c].prev)
       /\ HasKey(PrevDoc(c), "protocolId")
       /\ ~HasKey(OutDoc(c), "protocolId")

====
